---- MODULE Spec2Model ----
(***************************************************************************)
(* Model of mcap2json.py: the IDL field extractor (parse_idl_type), the    *)
(* struct map built inside decode_cdr_message, the CDR field walk of       *)
(* decode_cdr_message, and the message loop of convert_mcap_to_json.       *)
(*                                                                         *)
(* Python str values are sequences of Unicode code points, bytes values    *)
(* are sequences over 0..255.  Python ints are unbounded, so an int is a   *)
(* sign and a little-endian base-256 magnitude without high zero digits.   *)
(***************************************************************************)
EXTENDS Integers, Sequences, FiniteSets, TLC

VARIABLES
    data,        \* decode_cdr_message: the bytes argument
    fields,      \* decode_cdr_message: the list of (field_type, field_name)
    idl_text,    \* the IDL text argument ("" stands for None as well: both are falsy)
    type_name,   \* parse_idl_type: the requested type name
    struct_map,  \* decode_cdr_message: struct name -> field list, in insertion order
    offset,      \* decode_cdr_message: the top-level cursor
    result,      \* decode_cdr_message: the output dict, in insertion order
    idx,         \* position of the for loop over fields (1-based index of the next field)
    pc,          \* control position
    parsed,      \* parse_idl_type: the returned field list
    trace,       \* history: one record per top-level field the loop body handled
    given,       \* history: what the input was built from (family, encoded value)
    run          \* convert_mcap_to_json: counters, decoder cache, the message at hand

vars == <<data, fields, idl_text, type_name, struct_map, offset, result, idx, pc,
          parsed, trace, given, run>>

(***************************************************************************)
(* String literals of the source, as code points.                          *)
(***************************************************************************)
s_uint8 == <<117,105,110,116,56>>  \* "uint8"
s_int8 == <<105,110,116,56>>  \* "int8"
s_uint16 == <<117,105,110,116,49,54>>  \* "uint16"
s_int16 == <<105,110,116,49,54>>  \* "int16"
s_uint32 == <<117,105,110,116,51,50>>  \* "uint32"
s_int32 == <<105,110,116,51,50>>  \* "int32"
s_uint64 == <<117,105,110,116,54,52>>  \* "uint64"
s_int64 == <<105,110,116,54,52>>  \* "int64"
s_float == <<102,108,111,97,116>>  \* "float"
s_double == <<100,111,117,98,108,101>>  \* "double"
s_boolean == <<98,111,111,108,101,97,110>>  \* "boolean"
s_string == <<115,116,114,105,110,103>>  \* "string"
s_Header == <<72,101,97,100,101,114>>  \* "Header"
s_Time == <<84,105,109,101>>  \* "Time"
s_octet == <<111,99,116,101,116>>  \* "octet"
s_std_msgs_Header == <<115,116,100,95,109,115,103,115,95,72,101,97,100,101,114>>  \* "std_msgs_Header"
s_builtin_interfaces_Time == <<98,117,105,108,116,105,110,95,105,110,116,101,114,102,97,99,101,115,95,84,105,109,101>>  \* "builtin_interfaces_Time"
s_struct == <<115,116,114,117,99,116>>  \* "struct"
s_stamp == <<115,116,97,109,112>>  \* "stamp"
s_sec == <<115,101,99>>  \* "sec"
s_nanosec == <<110,97,110,111,115,101,99>>  \* "nanosec"
s_frame_id == <<102,114,97,109,101,95,105,100>>  \* "frame_id"
s_coloncolon == <<58,58>>  \* "::"
s_underscore == <<95>>  \* "_"
s_brackets == <<91,93>>  \* "[]"
s_array == <<95,97,114,114,97,121>>  \* "_array"
s_lt == <<60>>  \* "<"
s_gt == <<62>>  \* ">"
s_error_open == <<60,101,114,114,111,114,58,32>>  \* "<error: "
s_err1 == <<117,110,112,97,99,107,95,102,114,111,109,32,114,101,113,117,105,114,101,115,32,97,32,98,117,102,102,101,114,32,111,102,32,97,116,32,108,101,97,115,116,32>>  \* "unpack_from requires a buffer of at least "
s_err2 == <<32,98,121,116,101,115,32,102,111,114,32,117,110,112,97,99,107,105,110,103,32>>  \* " bytes for unpacking "
s_err3 == <<32,98,121,116,101,115,32,97,116,32,111,102,102,115,101,116,32>>  \* " bytes at offset "
s_err4 == <<32,40,97,99,116,117,97,108,32,98,117,102,102,101,114,32,115,105,122,101,32,105,115,32>>  \* " (actual buffer size is "
s_err5 == <<41>>  \* ")"

(***************************************************************************)
(* Sequences.                                                              *)
(***************************************************************************)
\* Python slice s[lo:hi] for 0 <= lo, with 0-based bounds clipped to the sequence.
Slice(s, lo, hi) ==
    LET h == IF hi > Len(s) THEN Len(s) ELSE hi
    IN  IF lo >= h THEN <<>> ELSE SubSeq(s, lo + 1, h)

\* str.endswith
EndsWith(s, suffix) ==
    /\ Len(suffix) <= Len(s)
    /\ SubSeq(s, Len(s) - Len(suffix) + 1, Len(s)) = suffix

\* s[at:].startswith(lit), at 0-based
LitAt(s, at, lit) ==
    /\ at + Len(lit) <= Len(s)
    /\ SubSeq(s, at + 1, at + Len(lit)) = lit

(***************************************************************************)
(* Python values.                                                          *)
(***************************************************************************)
RECURSIVE StripZeros(_)
StripZeros(ds) ==
    IF ds = <<>> THEN <<>>
    ELSE IF ds[Len(ds)] = 0 THEN StripZeros(SubSeq(ds, 1, Len(ds) - 1))
    ELSE ds

RECURSIVE NatMag(_)
NatMag(n) == IF n = 0 THEN <<>> ELSE <<n % 256>> \o NatMag(n \div 256)

IntVal(neg, mag) == [k |-> "int", neg |-> neg, mag |-> mag]
PyInt(n) == IF n < 0 THEN IntVal(TRUE, NatMag(-n)) ELSE IntVal(FALSE, NatMag(n))
BoolVal(b) == [k |-> "bool", b |-> b]
FloatVal(w, s, e, m) == [k |-> "float", w |-> w, s |-> s, e |-> e, m |-> m]
StrVal(cps) == [k |-> "str", text |-> cps]
DictVal(items) == [k |-> "dict", items |-> items]

\* str(n) for a natural number
RECURSIVE Decimal(_)
Decimal(n) == IF n < 10 THEN <<48 + n>> ELSE Decimal(n \div 10) \o <<48 + (n % 10)>>

\* a mapping that puts a new or updated key in front of the others
DictSetFront(items, key, val) ==
    <<(<<key, val>>)>> \o SelectSeq(items, LAMBDA it : it[1] # key)

\* dict insertion: d[key] = val keeps the position of an existing key
DictSet(items, key, val) ==
    IF \E i \in 1..Len(items) : items[i][1] = key
    THEN [i \in 1..Len(items) |-> IF items[i][1] = key THEN <<key, val>> ELSE items[i]]
    ELSE Append(items, <<key, val>>)

DictKeys(items) == [i \in 1..Len(items) |-> items[i][1]]

(***************************************************************************)
(* struct.unpack_from and bytes.decode.                                    *)
(***************************************************************************)
\* CDR type decoders lookup table
CDR_TYPE_DECODERS ==
    (s_uint8   :> [format |-> "B",  size |-> 1, align |-> 1]) @@
    (s_int8    :> [format |-> "b",  size |-> 1, align |-> 1]) @@
    (s_uint16  :> [format |-> "<H", size |-> 2, align |-> 2]) @@
    (s_int16   :> [format |-> "<h", size |-> 2, align |-> 2]) @@
    (s_uint32  :> [format |-> "<I", size |-> 4, align |-> 4]) @@
    (s_int32   :> [format |-> "<i", size |-> 4, align |-> 4]) @@
    (s_uint64  :> [format |-> "<Q", size |-> 8, align |-> 8]) @@
    (s_int64   :> [format |-> "<q", size |-> 8, align |-> 8]) @@
    (s_float   :> [format |-> "<f", size |-> 4, align |-> 4]) @@
    (s_double  :> [format |-> "<d", size |-> 8, align |-> 8]) @@
    (s_boolean :> [format |-> "?",  size |-> 1, align |-> 1])

\* struct.calcsize of the formats the source uses
calcsize(fmt) ==
    CASE fmt \in {"B", "b", "?"}     -> 1
      [] fmt \in {"<H", "<h"}        -> 2
      [] fmt \in {"<I", "<i", "<f"}  -> 4
      [] fmt \in {"<Q", "<q", "<d"}  -> 8

\* two's complement negation of a little-endian byte string: ~bs + carry
RECURSIVE NegBytes(_, _)
NegBytes(bs, carry) ==
    IF bs = <<>> THEN <<>>
    ELSE LET d == (255 - Head(bs)) + carry
         IN  <<d % 256>> \o NegBytes(Tail(bs), d \div 256)

UnsignedLE(bs) == IntVal(FALSE, StripZeros(bs))

\* a signed read that forgets the sign bit
SignedLEWithoutSign(bs) == IntVal(FALSE, StripZeros(bs))

SignedLE(bs) ==
    IF bs[Len(bs)] >= 128
    THEN IntVal(TRUE, StripZeros(NegBytes(bs, 1)))
    ELSE IntVal(FALSE, StripZeros(bs))

\* IEEE 754 binary32 / binary64, little-endian: sign, biased exponent, fraction
Float32LE(bs) ==
    FloatVal(32, bs[4] \div 128, (bs[4] % 128) * 2 + (bs[3] \div 128),
             StripZeros(<<bs[1], bs[2], bs[3] % 128>>))

Float64LE(bs) ==
    FloatVal(64, bs[8] \div 128, (bs[8] % 128) * 16 + (bs[7] \div 16),
             StripZeros(<<bs[1], bs[2], bs[3], bs[4], bs[5], bs[6], bs[7] % 16>>))

\* the value struct.unpack yields for one format and exactly calcsize(fmt) bytes
UnpackValue(fmt, bs) ==
    CASE fmt \in {"B", "<H", "<I", "<Q"} -> UnsignedLE(bs)
      [] fmt \in {"b", "<h", "<i", "<q"} -> SignedLE(bs)
      [] fmt = "?"                       -> BoolVal(bs[1] # 0)
      [] fmt = "<f"                      -> Float32LE(bs)
      [] fmt = "<d"                      -> Float64LE(bs)

\* str(e) of the struct.error that unpack_from raises on a short buffer
StructErrorMsg(size, off, buflen) ==
    s_err1 \o Decimal(off + size) \o s_err2 \o Decimal(size) \o s_err3 \o Decimal(off)
           \o s_err4 \o Decimal(buflen) \o s_err5

\* struct.unpack_from(fmt, buffer, off)[0] for off >= 0: the value, or the error raised
unpack_from(fmt, buffer, off) ==
    LET size == calcsize(fmt)
    IN  IF off + size > Len(buffer)
        THEN [ok |-> FALSE, msg |-> StructErrorMsg(size, off, Len(buffer))]
        ELSE [ok |-> TRUE, val |-> UnpackValue(fmt, SubSeq(buffer, off + 1, off + size))]

\* The int a '<I' length prefix denotes, for cursor arithmetic.  Exact below 2^30;
\* a larger length is represented by 2^30, which exceeds every buffer of the model,
\* so slices and bounds tests come out as with the exact value.
LengthOf(v) ==
    LET m == v.mag
    IN  IF Len(m) = 4 /\ m[4] >= 64 THEN 64 * 16777216
        ELSE (IF Len(m) >= 1 THEN m[1] ELSE 0)
           + (IF Len(m) >= 2 THEN m[2] * 256 ELSE 0)
           + (IF Len(m) >= 3 THEN m[3] * 65536 ELSE 0)
           + (IF Len(m) >= 4 THEN m[4] * 16777216 ELSE 0)

\* bytes.decode('utf-8', errors='replace') on byte strings without the lead bytes
\* 0xC2..0xF4 of multi-byte sequences: ASCII maps to itself, every other byte is an
\* invalid sequence of its own and becomes U+FFFD.
Utf8DecodeReplace(bs) == [i \in 1..Len(bs) |-> IF bs[i] < 128 THEN bs[i] ELSE 65533]

RECURSIVE BitAnd(_, _)
BitAnd(x, y) ==
    IF x = 0 \/ y = 0 THEN 0
    ELSE (x % 2) * (y % 2) + 2 * BitAnd(x \div 2, y \div 2)

\* an alignment that rounds down to the multiple of align below
AlignDown(off, align) == off - (off % align)

\* a read at the cursor as it stands, without alignment
AlignNone(off, align) == off

\* (offset + align - 1) & ~(align - 1), where x & ~m = x - (x & m)
AlignUp(off, align) ==
    LET x == off + align - 1
    IN  x - BitAnd(x, align - 1)

(***************************************************************************)
(* The regular expressions of the source, matched as re matches them:      *)
(* leftmost start, greedy quantifiers.  Positions are 0-based.  In each    *)
(* pattern a quantified run is followed by an element that cannot start    *)
(* with a character of the run, so the greedy run is the only run that     *)
(* can lead to a match.                                                    *)
(***************************************************************************)
IsWordChar(c) == c \in (48..57) \cup (65..90) \cup (97..122) \cup {95}   \* \w (ASCII)
IsSpaceChar(c) == c \in {9, 10, 11, 12, 13, 32}                          \* \s (ASCII)
IsDigitChar(c) == c \in 48..57                                           \* \d (ASCII)

InClass(cls, c) ==
    CASE cls = "w"        -> IsWordChar(c)
      [] cls = "s"        -> IsSpaceChar(c)
      [] cls = "d"        -> IsDigitChar(c)
      [] cls = "notbrace" -> c \notin {123, 125}      \* [^{}]
      [] cls = "notsemi"  -> c # 59                   \* [^;]

\* end of the longest run of cls characters that starts at p
RunEnd(s, p, cls) ==
    IF p >= Len(s) THEN p
    ELSE CHOOSE q \in p..Len(s) :
            /\ q = Len(s) \/ ~InClass(cls, s[q + 1])
            /\ \A r \in p..(q - 1) : InClass(cls, s[r + 1])

CharAt(s, p, c) == p < Len(s) /\ s[p + 1] = c

NoMatch == [found |-> FALSE]

\* (?:{[^{}]*}[^{}]*)* from p: the position after the last group that matches
RECURSIVE BraceGroupsEnd(_, _)
RECURSIVE BraceGroupClose(_, _, _)
BraceGroupClose(s, p, r) ==
    IF CharAt(s, r, 125) THEN BraceGroupsEnd(s, RunEnd(s, r + 1, "notbrace")) ELSE p

BraceGroupsEnd(s, p) ==
    IF CharAt(s, p, 123) THEN BraceGroupClose(s, p, RunEnd(s, p + 1, "notbrace")) ELSE p

\* \s*{([^{}]+(?:{[^{}]*}[^{}]*)*)} from p, the position after the struct's name:
\* the closing brace at fin, after the body that starts at b0
StructBodyClose(s, b0, fin, start, name) ==
    IF CharAt(s, fin, 125)
    THEN [found |-> TRUE, start |-> start, name |-> name,
          body |-> Slice(s, b0, fin), end |-> fin + 1]
    ELSE NoMatch

\* [^{}]+ from b0 ended at r1, then the brace groups
StructBodyFrom(s, b0, r1, start, name) ==
    IF r1 > b0 THEN StructBodyClose(s, b0, BraceGroupsEnd(s, r1), start, name)
    ELSE NoMatch

\* the opening brace at open
StructBodyOpen(s, open, start, name) ==
    IF CharAt(s, open, 123)
    THEN StructBodyFrom(s, open + 1, RunEnd(s, open + 1, "notbrace"), start, name)
    ELSE NoMatch

StructBodyAt(s, p, start, name) == StructBodyOpen(s, RunEnd(s, p, "s"), start, name)

\* struct\s+(\w+)\s*\{...\} at p: the name in nm..ne
AnyStructBody(s, p, nm, ne) ==
    IF ne > nm THEN StructBodyAt(s, ne, p, Slice(s, nm, ne)) ELSE NoMatch

AnyStructName(s, p, ws, nm) ==
    IF nm > ws THEN AnyStructBody(s, p, nm, RunEnd(s, nm, "w")) ELSE NoMatch

AnyStructAt(s, p) ==
    IF LitAt(s, p, s_struct)
    THEN AnyStructName(s, p, p + Len(s_struct), RunEnd(s, p + Len(s_struct), "s"))
    ELSE NoMatch

\* a search that takes the record of any name for the requested one
NamedStructAtAnyName(s, p, message_name) == AnyStructAt(s, p)

\* struct\s+<message_name>\s*{...} at p (message_name is spliced into the pattern;
\* it is made of word characters, which match themselves): the name expected at nm
NamedStructName(s, p, ws, nm, message_name) ==
    IF nm > ws /\ LitAt(s, nm, message_name)
    THEN StructBodyAt(s, nm + Len(message_name), p, message_name)
    ELSE NoMatch

NamedStructAt(s, p, message_name) ==
    IF LitAt(s, p, s_struct)
    THEN NamedStructName(s, p, p + Len(s_struct), RunEnd(s, p + Len(s_struct), "s"),
                         message_name)
    ELSE NoMatch

\* (?:\w+::)*\w+ from p: the end of the greedy match, or -1
RECURSIVE TypeCoreEnd(_, _)
RECURSIVE TypeCoreFrom(_, _, _)
TypeCoreMore(w, rest) == IF rest # -1 THEN rest ELSE w

TypeCoreFrom(s, p, w) ==
    IF w = p THEN -1
    ELSE IF LitAt(s, w, s_coloncolon) THEN TypeCoreMore(w, TypeCoreEnd(s, w + 2))
    ELSE w

TypeCoreEnd(s, p) == TypeCoreFrom(s, p, RunEnd(s, p, "w"))

\* ((?:\w+::)*\w+(?:\[\d*\])?)\s+(\w+)(?:\s*=\s*[^;]+)?; at p, piece by piece.
\* The match with type in p..tend and name in ns..ne that ends before position end
FieldMatch(s, p, tend, ns, ne, end) ==
    [found |-> TRUE, type |-> Slice(s, p, tend), name |-> Slice(s, ns, ne), end |-> end]

\* (?:\s*=\s*[^;]+)?; with the "=" expected at eq and the value ending at semi
FieldDefaultEnd(s, p, tend, ns, ne, eq, semi) ==
    IF semi > eq + 1 /\ CharAt(s, semi, 59) THEN FieldMatch(s, p, tend, ns, ne, semi + 1)
    ELSE NoMatch

FieldDefault(s, p, tend, ns, ne, eq) ==
    IF CharAt(s, eq, 61)
    THEN FieldDefaultEnd(s, p, tend, ns, ne, eq, RunEnd(s, eq + 1, "notsemi"))
    ELSE NoMatch

\* (\w+) in ns..ne, then ";" or a default value
FieldName(s, p, tend, ns, ne) ==
    IF ne = ns THEN NoMatch
    ELSE IF CharAt(s, ne, 59) THEN FieldMatch(s, p, tend, ns, ne, ne + 1)
    ELSE FieldDefault(s, p, tend, ns, ne, RunEnd(s, ne, "s"))

\* \s+ in tend..ns
FieldSpace(s, p, tend, ns) ==
    IF ns = tend THEN NoMatch ELSE FieldName(s, p, tend, ns, RunEnd(s, ns, "w"))

FieldType(s, p, tend) == FieldSpace(s, p, tend, RunEnd(s, tend, "s"))

\* (?:\[\d*\])? after the type's core, the digits ending at dg
BracketEnd(s, core, dg) == IF CharAt(s, dg, 93) THEN dg + 1 ELSE core

FieldCore(s, p, core) ==
    IF core = -1 THEN NoMatch
    ELSE IF CharAt(s, core, 91)
    THEN FieldType(s, p, BracketEnd(s, core, RunEnd(s, core + 1, "d")))
    ELSE FieldType(s, p, core)

FieldAt(s, p) == FieldCore(s, p, TypeCoreEnd(s, p))

\* does the pattern of this kind match (or the literal arg occur) at position q of s
MatchesAt(kind, s, q, arg) ==
    CASE kind = "named" -> NamedStructAt(s, q, arg).found
      [] kind = "any"   -> AnyStructAt(s, q).found
      [] kind = "field" -> FieldAt(s, q).found
      [] kind = "lit"   -> LitAt(s, q, arg)

\* the scan of a search: the least position in lo..hi where the pattern matches, or -1
RECURSIVE Leftmost(_, _, _, _, _)
RECURSIVE LeftmostOr(_, _, _, _, _, _)
LeftmostOr(kind, s, arg, left, lo, hi) ==
    IF left # -1 THEN left ELSE Leftmost(kind, s, arg, lo, hi)

Leftmost(kind, s, arg, lo, hi) ==
    IF lo > hi THEN -1
    ELSE IF lo = hi THEN (IF MatchesAt(kind, s, lo, arg) THEN lo ELSE -1)
    ELSE LeftmostOr(kind, s, arg, Leftmost(kind, s, arg, lo, (lo + hi) \div 2),
                    (lo + hi) \div 2 + 1, hi)

\* re.search(struct_pattern, idl_text, re.DOTALL): the match at the leftmost start
NamedStructFrom(s, start, message_name) ==
    IF start = -1 THEN NoMatch ELSE NamedStructAt(s, start, message_name)

SearchNamedStruct(s, message_name) ==
    NamedStructFrom(s, Leftmost("named", s, message_name, 0, Len(s)), message_name)

\* the next match of re.finditer(struct_pattern, ...) at or after p
AnyStructFrom(s, start) == IF start = -1 THEN NoMatch ELSE AnyStructAt(s, start)

NextStruct(s, p) == AnyStructFrom(s, Leftmost("any", s, <<>>, p, Len(s)))

\* str.replace(old, new), old non-empty: the occurrences from the left, not overlapping
RECURSIVE Replace(_, _, _)
RECURSIVE ReplaceAt(_, _, _, _)
ReplaceAt(s, old, new, hit) ==
    IF hit = -1 THEN s
    ELSE Slice(s, 0, hit) \o new \o Replace(Slice(s, hit + Len(old), Len(s)), old, new)

Replace(s, old, new) == ReplaceAt(s, old, new, Leftmost("lit", s, old, 0, Len(s)))

\* type_mapping.get(field_type, field_type)
type_mapping(field_type) ==
    CASE field_type = s_std_msgs_Header         -> s_Header
      [] field_type = s_builtin_interfaces_Time -> s_Time
      [] field_type = s_octet                   -> s_uint8
      [] OTHER                                  -> field_type

\* the clean-up of one matched type
NormalizeType(t) ==
    type_mapping(Replace(Replace(t, s_coloncolon, s_underscore), s_brackets, s_array))

\* for field_match in re.finditer(field_pattern, struct_body): ... append,
\* from position p on: each match starts at the leftmost start after the one before
RECURSIVE FieldsOfBody(_, _)
RECURSIVE FieldsFromMatch(_, _)
RECURSIVE FieldsFromStart(_, _)
FieldsFromMatch(body, m) ==
    <<(<<NormalizeType(m.type), m.name>>)>> \o FieldsOfBody(body, m.end)

FieldsFromStart(body, start) ==
    IF start = -1 THEN <<>> ELSE FieldsFromMatch(body, FieldAt(body, start))

FieldsOfBody(body, p) == FieldsFromStart(body, Leftmost("field", body, <<>>, p, Len(body)))

\* if struct_match: struct_body = struct_match.group(1); ...
FieldsOfMatch(m) == IF m.found THEN FieldsOfBody(m.body, 0) ELSE <<>>

\* type_name.split("/")[-1]: from the last "/" on (from the start without one)
LastSegment(name) ==
    Slice(name,
          CHOOSE p \in 0..Len(name) :
             /\ p = 0 \/ name[p] = 47
             /\ \A i \in (p + 1)..Len(name) : name[i] # 47,
          Len(name))

parse_idl_type(text, name) == FieldsOfMatch(SearchNamedStruct(text, LastSegment(name)))

\* for match in re.finditer(struct_pattern, idl_text, re.DOTALL): struct_map[name] = fields
RECURSIVE StructMapFrom(_, _, _)
RECURSIVE StructMapWith(_, _, _)
StructMapWith(text, m, map) ==
    IF m.found
    THEN StructMapFrom(text, m.end, DictSet(map, m.name, FieldsOfMatch(m)))
    ELSE map

StructMapFrom(text, p, map) == StructMapWith(text, NextStruct(text, p), map)

\* an IDL text that declares Inner, and a struct named Header that is not the ROS2 header
IdlInner ==
    <<115,116,114,117,99,116,32,73,110,110,101,114,32,123,32,117,105,110,116,56,32,112,59,32,115,116,114,105,110,103,32,115,59,32,125,59,32,115,116,114,117,99,116,32,72,101,97,100,101,114,32,123,32,117,105,110,116,56,32,120,59,32,125,59>>  \* "struct Inner { uint8 p; string s; }; struct Header { uint8 x; };"

\* the record map of IdlInner, built once
IdlInnerMap == StructMapFrom(IdlInner, 0, <<>>)

\* if idl_text: for match in re.finditer(...)
BuildStructMap(text) ==
    IF text = <<>> THEN <<>>
    ELSE IF text = IdlInner THEN IdlInnerMap
    ELSE StructMapFrom(text, 0, <<>>)

(***************************************************************************)
(* convert_mcap_to_json: the state of one run.  A schema is known by its   *)
(* id (0 stands for a message without schema); the decoder cache is keyed  *)
(* by (message encoding, schema id) and holds "decoder" or "False".        *)
(***************************************************************************)
SchemaIds == 0..4

\* the message at hand: schema id, message encoding, bytes (the topic is kept only
\* until the topic filter has looked at it)
NoMessage == [schema |-> 0, enc |-> "", topic |-> 0, data |-> <<>>]

\* message_count = decoded_count = raw_count = output_count = 0; decoder_cache = {}
RunIdle ==
    [message_count |-> 0, decoded_count |-> 0, raw_count |-> 0, output_count |-> 0,
     decoder_cache |-> <<>>,
     msg |-> NoMessage, json |-> {}, decoded |-> FALSE,
     topics |-> {}, limit |-> 0, seen |-> 0,
     \* history
     with_data |-> 0, failed |-> {}, retried |-> {},
     parse_calls |-> [i \in SchemaIds |-> 0],
     map_builds |-> [i \in SchemaIds |-> 0],
     decode_calls |-> [i \in SchemaIds |-> 0]]

(***************************************************************************)
(* decode_cdr_message.                                                     *)
(***************************************************************************)
CurType == fields[idx][1]
CurName == fields[idx][2]

\* a placeholder that is the bare type name
TypePlaceholderBare(t) == StrVal(t)

\* f"<{field_type}>" and f"<error: {str(e)}>"
TypePlaceholder(t) == StrVal(s_lt \o t \o s_gt)
ErrorPlaceholder(msg) == StrVal(s_error_open \o msg \o s_gt)

IsHeaderType(t) == t = s_Header \/ EndsWith(t, s_Header)

\* for struct_name, struct_fields in struct_map.items(): first name the type ends with
RECURSIVE LookupFrom(_, _, _)
LookupFrom(map, i, t) ==
    IF i > Len(map) THEN [found |-> FALSE, fields |-> <<>>]
    ELSE IF EndsWith(t, map[i][1]) \/ t = map[i][1]
    THEN [found |-> TRUE, name |-> map[i][1], fields |-> map[i][2]]
    ELSE LookupFrom(map, i + 1, t)

LookupStruct(map, t) == LookupFrom(map, 1, t)

\* the walk over nested_fields, from field i on, against remaining_data
RECURSIVE NestedWalk(_, _, _, _, _)
NestedWalk(nested_fields, i, remaining_data, nested_result, nested_offset) ==
    IF i > Len(nested_fields) \/ nested_offset >= Len(remaining_data)
    THEN [result |-> nested_result, offset |-> nested_offset]
    ELSE LET nfield_type == nested_fields[i][1]
             nfield_name == nested_fields[i][2]
         IN  IF nfield_type \in DOMAIN CDR_TYPE_DECODERS
             THEN LET decoder == CDR_TYPE_DECODERS[nfield_type]
                      at      == AlignUp(nested_offset, decoder.align)
                      r       == unpack_from(decoder.format, remaining_data, at)
                  IN  IF at + decoder.size <= Len(remaining_data)
                      THEN IF r.ok
                           THEN NestedWalk(nested_fields, i + 1, remaining_data,
                                           DictSet(nested_result, nfield_name, r.val),
                                           at + decoder.size)
                           ELSE NestedWalk(nested_fields, i + 1, remaining_data,
                                           DictSet(nested_result, nfield_name,
                                                   ErrorPlaceholder(r.msg)), at)
                      ELSE NestedWalk(nested_fields, i + 1, remaining_data,
                                      nested_result, at)
             ELSE IF nfield_type = s_string
             THEN LET at      == AlignUp(nested_offset, 4)
                      r       == unpack_from("<I", remaining_data, at)
                      str_len == LengthOf(r.val)
                  IN  IF at + 4 <= Len(remaining_data)
                      THEN IF ~r.ok
                           THEN NestedWalk(nested_fields, i + 1, remaining_data,
                                           DictSet(nested_result, nfield_name,
                                                   ErrorPlaceholder(r.msg)), at)
                           ELSE IF at + 4 + str_len <= Len(remaining_data)
                           THEN NestedWalk(nested_fields, i + 1, remaining_data,
                                    DictSet(nested_result, nfield_name,
                                        StrVal(Utf8DecodeReplace(
                                            Slice(remaining_data, at + 4, at + 4 + str_len)))),
                                    at + 4 + str_len)
                           ELSE NestedWalk(nested_fields, i + 1, remaining_data,
                                           nested_result, at + 4)
                      ELSE NestedWalk(nested_fields, i + 1, remaining_data,
                                      nested_result, at)
             ELSE NestedWalk(nested_fields, i + 1, remaining_data,
                             DictSet(nested_result, nfield_name,
                                     TypePlaceholder(nfield_type)),
                             nested_offset)

\* one entry of the history: what the loop body did with field idx
Step(kind, at, raised) ==
    [i |-> idx, type |-> CurType, name |-> CurName, kind |-> kind,
     before |-> offset, at |-> at, after |-> offset', raised |-> raised,
     value |-> LET j == CHOOSE j \in 1..Len(result') : result'[j][1] = CurName
               IN  result'[j][2],
     prior |-> result]

\* result[field_name] = value, next iteration
Store(value, newOffset) ==
    /\ result' = DictSet(result, CurName, value)
    /\ offset' = newOffset
    /\ idx' = idx + 1
    /\ pc' = "loop"

\* an except clause without the break: the loop goes on with the next field
RaiseWithoutBreak(msg, newOffset) ==
    /\ result' = DictSet(result, CurName, ErrorPlaceholder(msg))
    /\ offset' = newOffset
    /\ idx' = idx + 1
    /\ pc' = "loop"

\* except Exception as e: result[field_name] = f"<error: {str(e)}>"; break
Raise(msg, newOffset) ==
    /\ result' = DictSet(result, CurName, ErrorPlaceholder(msg))
    /\ offset' = newOffset
    /\ idx' = idx
    /\ pc' = "done"

Frame == UNCHANGED <<data, fields, idl_text, type_name, struct_map, parsed, given, run>>

\* entry: result = {}, offset = 4, struct_map built from idl_text
DecodeCall ==
    /\ pc = "call"
    /\ result' = <<>>
    /\ offset' = 4
    /\ struct_map' = BuildStructMap(idl_text)
    /\ idx' = 1
    /\ pc' = "loop"
    /\ run' = [run EXCEPT !.decode_calls[run.msg.schema] = @ + 1,
                          !.map_builds[run.msg.schema] = IF idl_text # <<>> THEN @ + 1 ELSE @]
    /\ UNCHANGED <<data, fields, idl_text, type_name, parsed, given, trace>>

\* the for loop runs out of fields: return result
LoopEnd ==
    /\ pc = "loop"
    /\ idx > Len(fields)
    /\ pc' = "done"
    /\ UNCHANGED <<result, offset, idx, trace>>
    /\ Frame

\* an end test that lets a cursor at the very end of the buffer through
AtEndStrict(off, buffer) == off > Len(buffer)

\* offset >= len(data)
AtEnd(off, buffer) == off >= Len(buffer)

\* if offset >= len(data): break
LoopBreak ==
    /\ pc = "loop"
    /\ idx <= Len(fields)
    /\ AtEnd(offset, data)
    /\ pc' = "done"
    /\ UNCHANGED <<result, offset, idx, trace>>
    /\ Frame

InBody == pc = "loop" /\ idx <= Len(fields) /\ ~AtEnd(offset, data)

\* if field_type in CDR_TYPE_DECODERS
FieldPrimitive ==
    /\ InBody
    /\ CurType \in DOMAIN CDR_TYPE_DECODERS
    /\ LET decoder == CDR_TYPE_DECODERS[CurType]
           at      == AlignUp(offset, decoder.align)
           r       == unpack_from(decoder.format, data, at)
       IN  /\ IF r.ok THEN Store(r.val, at + decoder.size) ELSE Raise(r.msg, at)
           /\ trace' = Append(trace, Step("primitive", at, ~r.ok))
    /\ Frame

\* a string end that counts a terminator after the characters
StringEndWithTerminator(at, length) == at + 4 + length + 1

\* offset += 4; ...; offset += length, from the aligned offset
StringEnd(at, length) == at + 4 + length

\* elif field_type == "string"
FieldString ==
    /\ InBody
    /\ CurType \notin DOMAIN CDR_TYPE_DECODERS
    /\ CurType = s_string
    /\ LET at     == AlignUp(offset, 4)
           r      == unpack_from("<I", data, at)
           length == LengthOf(r.val)
       IN  /\ IF r.ok
              THEN Store(StrVal(Utf8DecodeReplace(Slice(data, at + 4, at + 4 + length))),
                         StringEnd(at, length))
              ELSE Raise(r.msg, at)
           /\ trace' = Append(trace, Step("string", at, ~r.ok))
    /\ Frame

\* elif field_type == "Header" or field_type.endswith("Header")
FieldHeader ==
    /\ InBody
    /\ CurType \notin DOMAIN CDR_TYPE_DECODERS
    /\ CurType # s_string
    /\ IsHeaderType(CurType)
    /\ LET at      == AlignUp(offset, 4)
           sec     == unpack_from("<i", data, at)
           nanosec == unpack_from("<I", data, at + 4)
           lenAt   == AlignUp(at + 8, 4)
           r       == unpack_from("<I", data, lenAt)
           length  == LengthOf(r.val)
           header  == DictVal(<<
                        <<s_stamp, DictVal(<< <<s_sec, sec.val>>,
                                              <<s_nanosec, nanosec.val>> >>)>>,
                        <<s_frame_id, StrVal(Utf8DecodeReplace(
                                         Slice(data, lenAt + 4, lenAt + 4 + length)))>> >>)
       IN  /\ IF ~sec.ok THEN Raise(sec.msg, at)
              ELSE IF ~nanosec.ok THEN Raise(nanosec.msg, at)
              ELSE IF ~r.ok THEN Raise(r.msg, lenAt)
              ELSE Store(header, lenAt + 4 + length)
           /\ trace' = Append(trace, Step("header", at, ~(sec.ok /\ nanosec.ok /\ r.ok)))
    /\ Frame

IsOtherType(t) ==
    /\ t \notin DOMAIN CDR_TYPE_DECODERS
    /\ t # s_string
    /\ ~IsHeaderType(t)

\* else: the type is found in struct_map with a non-empty field list
FieldNested ==
    /\ InBody
    /\ IsOtherType(CurType)
    /\ LookupStruct(struct_map, CurType).fields # <<>>
    /\ LET nested_fields  == LookupStruct(struct_map, CurType).fields
           at             == IF offset + 4 <= Len(data) THEN AlignUp(offset, 4) ELSE offset
           remaining_data == Slice(data, at, Len(data))
           w              == NestedWalk(nested_fields, 1, remaining_data, <<>>, 0)
       IN  /\ IF w.result # <<>>
              THEN Store(DictVal(w.result), at + w.offset)
              ELSE Store(TypePlaceholder(CurType), at)
           /\ trace' = Append(trace, Step("nested", at, FALSE))
    /\ Frame

\* else: no struct of struct_map matches (or the one that matches has no fields)
FieldUnresolved ==
    /\ InBody
    /\ IsOtherType(CurType)
    /\ LookupStruct(struct_map, CurType).fields = <<>>
    /\ Store(TypePlaceholder(CurType), offset)
    /\ trace' = Append(trace, Step("unresolved", offset, FALSE))
    /\ Frame

(***************************************************************************)
(* Inputs.  Buffers are written by a CDR writer for the field list at hand *)
(* (zero padding up to each type's alignment), cut at every length, or are *)
(* fixed byte strings unrelated to the field list.                         *)
(***************************************************************************)
MaxFields == 3        \* longest field list handed to decode_cdr_message

s_Foo == <<70,111,111>>  \* "Foo"
s_Inner == <<73,110,110,101,114>>  \* "Inner"
s_std_msgs_msg_Header == <<115,116,100,95,109,115,103,115,95,109,115,103,95,72,101,97,100,101,114>>  \* "std_msgs_msg_Header"
s_base_link == <<98,97,115,101,95,108,105,110,107>>  \* "base_link"

\* field names "a", "b", "c", ... by position
NameAt(i) == <<96 + i>>

\* "struct <name> { <type> <name>; ... };"
RECURSIVE RenderMembers(_, _)
RenderMembers(fs, i) ==
    IF i > Len(fs) THEN <<>>
    ELSE fs[i][1] \o <<32>> \o fs[i][2] \o <<59, 32>> \o RenderMembers(fs, i + 1)

\* "struct <name> { <inner>};"
RenderBody(name, inner) ==
    s_struct \o <<32>> \o name \o <<32, 123, 32>> \o inner \o <<125, 59>>

RenderStruct(name, fs) == RenderBody(name, RenderMembers(fs, 1))

InnerFields == << <<s_uint8, <<112>> >>, <<s_string, <<115>> >> >>   \* uint8 p; string s;

IdlTexts == {<<>>, IdlInner}

CdrHeader == <<0, 1, 0, 0>>

PadTo(buf, align) == buf \o [i \in 1..((align - (Len(buf) % align)) % align) |-> 0]

PrimBytes(t, pat) ==
    [i \in 1..CDR_TYPE_DECODERS[t].size |->
        IF pat = "plain" THEN (IF i = 1 THEN 1 ELSE 0) ELSE 255]

StringBytes(pat) == IF pat = "plain" THEN <<2, 0, 0, 0, 65, 66>> ELSE <<0, 0, 0, 0>>

HeaderBytes(pat) ==
    CASE pat = "plain"   -> <<1, 0, 0, 0,  2, 0, 0, 0,  1, 0, 0, 0, 102>>
      [] pat = "example" -> <<100, 0, 0, 0,  200, 0, 0, 0,  9, 0, 0, 0,
                              98, 97, 115, 101, 95, 108, 105, 110, 107>>
      [] OTHER           -> <<255, 255, 255, 255,  255, 255, 255, 255,  0, 0, 0, 0>>

RECURSIVE Encode(_, _, _, _)
Encode(fs, i, pat, buf) ==
    IF i > Len(fs) THEN buf
    ELSE LET t == fs[i][1]
         IN  Encode(fs, i + 1, pat,
                IF t \in DOMAIN CDR_TYPE_DECODERS
                THEN PadTo(buf, CDR_TYPE_DECODERS[t].align) \o PrimBytes(t, pat)
                ELSE IF t = s_string THEN PadTo(buf, 4) \o StringBytes(pat)
                ELSE IF EndsWith(t, s_Header) THEN PadTo(buf, 4) \o HeaderBytes(pat)
                ELSE IF t = s_Inner THEN Encode(InnerFields, 1, pat, PadTo(buf, 4))
                ELSE buf)

Prefixes(buf) == {SubSeq(buf, 1, n) : n \in 3..Len(buf)}

JunkBuffers ==
    { [i \in 1..16 |-> 255],
      [i \in 1..16 |-> 0],
      CdrHeader \o <<2, 0, 0, 0, 255, 128, 65, 0, 5, 0, 0, 0, 66, 67>> }

GeneralTypes == {s_uint8, s_string, s_Header, s_Inner}

\* the field names: pairwise distinct, or the last field named like the first
Named(types, dup) ==
    [i \in 1..Len(types) |->
        <<types[i], IF dup /\ i = Len(types) /\ i > 1 THEN NameAt(1) ELSE NameAt(i)>>]

GeneralFieldLists ==
    UNION { { Named(ts, dup) : ts \in [1..n -> GeneralTypes], dup \in {FALSE, n >= 2} }
            : n \in 0..MaxFields }

PrimitivePairs ==
    { Named(<<t1, t2>>, FALSE) : t1 \in DOMAIN CDR_TYPE_DECODERS,
                                 t2 \in DOMAIN CDR_TYPE_DECODERS }

\* A writer of primitive values, written from the CDR layout rather than from the
\* decoder: unsigned as is, signed in two's complement (2^(8n) - |v| by subtraction
\* with borrow), IEEE 754 fields packed sign first, all least significant byte first.
ZeroExtend(mag, n) == [i \in 1..n |-> IF i <= Len(mag) THEN mag[i] ELSE 0]

RECURSIVE SubtractFromZero(_, _)
SubtractFromZero(bs, borrow) ==
    IF bs = <<>> THEN <<>>
    ELSE LET d == 0 - Head(bs) - borrow
         IN  IF d < 0 THEN <<d + 256>> \o SubtractFromZero(Tail(bs), 1)
             ELSE <<d>> \o SubtractFromZero(Tail(bs), 0)

EncodeValue(t, v) ==
    LET n == CDR_TYPE_DECODERS[t].size
    IN  CASE v.k = "bool"  -> IF v.b THEN <<1>> ELSE <<0>>
          [] v.k = "int"   -> IF v.neg THEN SubtractFromZero(ZeroExtend(v.mag, n), 0)
                              ELSE ZeroExtend(v.mag, n)
          [] v.k = "float" ->
                LET m == ZeroExtend(v.m, n - 1)
                IN  IF v.w = 32
                    THEN <<m[1], m[2], (v.e % 2) * 128 + m[3], v.s * 128 + (v.e \div 2)>>
                    ELSE <<m[1], m[2], m[3], m[4], m[5], m[6],
                           (v.e % 16) * 16 + m[7], v.s * 128 + (v.e \div 16)>>

\* sample values of a type: the extremes, 0, 1, -1 and values whose bytes all differ
Ramp(n) == [i \in 1..n |-> i]
TopBit(n) == [i \in 1..n |-> IF i = n THEN 128 ELSE 0]
AllOnes(n) == [i \in 1..n |-> 255]
MaxSigned(n) == [i \in 1..n |-> IF i = n THEN 127 ELSE 255]

Samples(t) ==
    LET n == CDR_TYPE_DECODERS[t].size
        f == CDR_TYPE_DECODERS[t].format
    IN  CASE f = "?" -> {BoolVal(TRUE), BoolVal(FALSE)}
          [] f \in {"B", "<H", "<I", "<Q"} ->
                {IntVal(FALSE, m) : m \in {<<>>, <<1>>, Ramp(n), TopBit(n), AllOnes(n)}}
          [] f \in {"b", "<h", "<i", "<q"} ->
                {IntVal(FALSE, m) : m \in {<<>>, <<1>>, Ramp(n), MaxSigned(n)}}
                \cup {IntVal(TRUE, m) : m \in {<<1>>, Ramp(n), MaxSigned(n), TopBit(n)}}
          [] f = "<f" ->
                {FloatVal(32, s, e, m) : s \in {0, 1}, e \in {0, 1, 127, 254},
                                         m \in {<<>>, <<1>>, Ramp(3)}}
                \cup {FloatVal(32, s, 255, <<>>) : s \in {0, 1}}
          [] f = "<d" ->
                {FloatVal(64, s, e, m) : s \in {0, 1}, e \in {0, 1, 1023, 2046},
                                         m \in {<<>>, <<1>>, Ramp(7)}}
                \cup {FloatVal(64, s, 2047, <<>>) : s \in {0, 1}}

\* the header of the example: sec = 100, nanosec = 200, frame_id = "base_link"
ExampleHeader ==
    DictVal(<< <<s_stamp, DictVal(<< <<s_sec, PyInt(100)>>, <<s_nanosec, PyInt(200)>> >>)>>,
               <<s_frame_id, StrVal(s_base_link)>> >>)

s_State == <<83,116,97,116,101>>  \* "State"
s_DeviceState == <<68,101,118,105,99,101,83,116,97,116,101>>  \* "DeviceState"
s_Leaf == <<76,101,97,102>>  \* "Leaf"
s_Mid == <<77,105,100>>  \* "Mid"
s_Zed == <<90,101,100>>  \* "Zed"

\* an IDL text whose record Mid has a record, a header and an undeclared type as fields
IdlDeep ==
    <<115,116,114,117,99,116,32,76,101,97,102,32,123,32,117,105,110,116,56,32,112,59,32,125,59,32,115,116,114,117,99,116,32,77,105,100,32,123,32,117,105,110,116,56,32,113,59,32,76,101,97,102,32,108,59,32,115,116,100,95,109,115,103,115,58,58,72,101,97,100,101,114,32,104,59,32,90,101,100,32,122,59,32,125,59>>  \* "struct Leaf { uint8 p; }; struct Mid { uint8 q; Leaf l; std_msgs::Header h; Zed z; };"

\* IDL texts that declare State and DeviceState, in either order
IdlStates ==
    <<115,116,114,117,99,116,32,83,116,97,116,101,32,123,32,117,105,110,116,56,32,120,59,32,125,59,32,115,116,114,117,99,116,32,68,101,118,105,99,101,83,116,97,116,101,32,123,32,117,105,110,116,49,54,32,121,59,32,125,59>>  \* "struct State { uint8 x; }; struct DeviceState { uint16 y; };"

IdlStatesRev ==
    <<115,116,114,117,99,116,32,68,101,118,105,99,101,83,116,97,116,101,32,123,32,117,105,110,116,49,54,32,121,59,32,125,59,32,115,116,114,117,99,116,32,83,116,97,116,101,32,123,32,117,105,110,116,56,32,120,59,32,125,59>>  \* "struct DeviceState { uint16 y; }; struct State { uint8 x; };"

\* the field lists decoded against those texts
RecordFieldLists(text) ==
    IF text = IdlDeep
    THEN { << <<s_Mid, NameAt(13)>> >>,
           << <<s_Mid, NameAt(13)>>, <<s_uint8, NameAt(2)>> >> }
    ELSE { << <<s_DeviceState, NameAt(4)>> >>,
           << <<s_State, NameAt(19)>> >>,
           << <<s_uint8, NameAt(1)>>, <<s_DeviceState, NameAt(4)>>, <<s_uint8, NameAt(2)>> >> }

\* q = 1, l.p = 2, h = (1, 2, "f") as a CDR writer lays Mid out, read as y, x otherwise
RecordBuffer ==
    CdrHeader \o <<1, 0, 0, 0,  2, 0, 0, 0,  1, 0, 0, 0,  2, 0, 0, 0,  1, 0, 0, 0,  102>>

InitCommon ==
    /\ run = RunIdle
    /\ struct_map = <<>>
    /\ offset = 0
    /\ result = <<>>
    /\ idx = 0
    /\ parsed = <<>>
    /\ trace = <<>>

\* decode_cdr_message called on a field list and a buffer
InitDirect ==
    /\ pc = "call"
    /\ type_name = <<>>
    /\ \/ /\ fields \in GeneralFieldLists
          /\ idl_text \in IdlTexts
          /\ \E pat \in {"plain", "high"} :
                /\ data \in Prefixes(Encode(fields, 1, pat, CdrHeader)) \cup JunkBuffers
                /\ given = [family |-> "general"]
       \/ /\ fields \in PrimitivePairs
          /\ idl_text = <<>>
          /\ \E pat \in {"plain", "high"} :
                /\ data \in Prefixes(Encode(fields, 1, pat, CdrHeader))
                /\ given = [family |-> "pairs"]
       \/ \E t \in DOMAIN CDR_TYPE_DECODERS : \E v \in Samples(t) :
             /\ fields = << <<t, NameAt(1)>> >>
             /\ idl_text = <<>>
             /\ data = PadTo(CdrHeader, CDR_TYPE_DECODERS[t].align) \o EncodeValue(t, v)
             /\ given = [family |-> "roundtrip", value |-> v]
       \/ /\ fields \in { << <<t, NameAt(8)>> >> : t \in {s_Header, s_std_msgs_msg_Header} }
                       \cup { << <<s_uint8, NameAt(1)>>, <<s_Header, NameAt(8)>>,
                                 <<s_uint8, NameAt(3)>> >> }
          /\ idl_text \in IdlTexts
          /\ data \in Prefixes(Encode(fields, 1, "example", CdrHeader))
          /\ given = [family |-> "header"]
       \/ /\ idl_text \in {IdlDeep, IdlStates, IdlStatesRev}
          /\ fields \in RecordFieldLists(idl_text)
          /\ data \in Prefixes(RecordBuffer)
          /\ given = [family |-> "records"]

(***************************************************************************)
(* IDL texts.  A text is written from the records it declares, so the      *)
(* fields each record declares are known apart from what the parser finds: *)
(* given.declared lists, per declared record, its fields with the types    *)
(* normalized as the specification words it.                               *)
(***************************************************************************)
MaxIdlFields == 2     \* most fields of the requested record R

s_std_msgs_cc_Header == <<115,116,100,95,109,115,103,115,58,58,72,101,97,100,101,114>>  \* "std_msgs::Header"
s_builtin_interfaces_cc_Time == <<98,117,105,108,116,105,110,95,105,110,116,101,114,102,97,99,101,115,58,58,84,105,109,101>>  \* "builtin_interfaces::Time"
s_pkg_cc_msg_cc_Foo == <<112,107,103,58,58,109,115,103,58,58,70,111,111>>  \* "pkg::msg::Foo"
s_pkg_msg_Foo == <<112,107,103,95,109,115,103,95,70,111,111>>  \* "pkg_msg_Foo"
s_uint8_brackets == <<117,105,110,116,56,91,93>>  \* "uint8[]"
s_uint8_array == <<117,105,110,116,56,95,97,114,114,97,121>>  \* "uint8_array"
s_R == <<82>>  \* "R"
s_Rx == <<82,120>>  \* "Rx"
s_Outer == <<79,117,116,101,114>>  \* "Outer"
s_N == <<78>>  \* "N"
s_M == <<77>>  \* "M"
s_Nope == <<78,111,112,101>>  \* "Nope"
s_pkg_msg_ == <<112,107,103,47,109,115,103,47>>  \* "pkg/msg/"
s_module_open == <<109,111,100,117,108,101,32,109,32,123,32>>  \* "module m { "
s_module_close == <<32,125,59>>  \* " };"
s_default == <<32,61,32,49>>  \* " = 1"

\* a type as written in the IDL text, and its normalized name
RawTypes ==
    { [raw |-> s_uint8,                      norm |-> s_uint8],
      [raw |-> s_octet,                      norm |-> s_uint8],
      [raw |-> s_std_msgs_cc_Header,         norm |-> s_Header],
      [raw |-> s_builtin_interfaces_cc_Time, norm |-> s_Time],
      [raw |-> s_pkg_cc_msg_cc_Foo,          norm |-> s_pkg_msg_Foo],
      [raw |-> s_uint8_brackets,             norm |-> s_uint8_array] }

IdlFieldLists == UNION { [1..n -> RawTypes] : n \in 0..MaxIdlFields }

AsWritten(fl) == [i \in 1..Len(fl) |-> <<fl[i].raw, NameAt(i)>>]
AsDeclared(fl) == [i \in 1..Len(fl) |-> <<fl[i].norm, NameAt(i)>>]

\* "<type> <name> = 1; ..."
RECURSIVE RenderMembersDefault(_, _)
RenderMembersDefault(fs, i) ==
    IF i > Len(fs) THEN <<>>
    ELSE fs[i][1] \o <<32>> \o fs[i][2] \o s_default \o <<59, 32>>
            \o RenderMembersDefault(fs, i + 1)

FieldZ == << <<s_uint16, <<122>> >> >>    \* uint16 z;
FieldO == << <<s_uint16, <<111>> >> >>    \* uint16 o;
FieldY == << <<s_uint16, <<121>> >> >>    \* uint16 y;

Shapes == {"alone", "module", "after", "defaults", "nested", "inside", "deep"}

\* the IDL text of one shape around the record R with the fields fl
RenderDoc(shape, fl) ==
    CASE shape = "alone"    -> RenderStruct(s_R, AsWritten(fl))
      [] shape = "module"   -> s_module_open \o RenderStruct(s_R, AsWritten(fl)) \o s_module_close
      [] shape = "after"    -> RenderStruct(s_Rx, FieldZ) \o <<32>>
                                  \o RenderStruct(s_R, AsWritten(fl))
      [] shape = "defaults" -> RenderBody(s_R, RenderMembersDefault(AsWritten(fl), 1))
      [] shape = "nested"   -> RenderBody(s_R, RenderStruct(s_N, FieldY) \o <<32>>
                                              \o RenderMembers(AsWritten(fl), 1))
      [] shape = "inside"   -> RenderBody(s_Outer, RenderStruct(s_R, AsWritten(fl)) \o <<32>>
                                                  \o RenderMembers(FieldO, 1))
      [] shape = "deep"     -> RenderBody(s_R,
                                  RenderBody(s_N, RenderStruct(s_M, FieldY) \o <<32>>)
                                      \o <<32>> \o RenderMembers(AsWritten(fl), 1))

\* the records the text of that shape declares, each with the fields it declares
DeclaredIn(shape, fl) ==
    CASE shape \in {"alone", "module", "defaults"} -> << <<s_R, AsDeclared(fl)>> >>
      [] shape = "after"  -> << <<s_Rx, FieldZ>>, <<s_R, AsDeclared(fl)>> >>
      [] shape = "nested" -> << <<s_R, AsDeclared(fl)>>, <<s_N, FieldY>> >>
      [] shape = "inside" -> << <<s_Outer, FieldO>>, <<s_R, AsDeclared(fl)>> >>
      [] shape = "deep"   -> << <<s_R, AsDeclared(fl)>>, <<s_N, <<>> >>, <<s_M, FieldY>> >>

TypeNames ==
    { s_R, s_pkg_msg_ \o s_R, s_pkg_msg_ \o s_Rx, s_pkg_msg_ \o s_Outer,
      s_pkg_msg_ \o s_N, s_pkg_msg_ \o s_Nope }

\* the IDL path of convert_mcap_to_json: parse_idl_type on the schema's text and name,
\* then decode_cdr_message on the message's bytes
InitPipeline ==
    /\ pc = "parse"
    /\ fields = <<>>
    /\ type_name \in TypeNames
    /\ data = CdrHeader \o <<2, 0, 0, 0, 255, 128, 65, 0, 5, 0, 0, 0, 66, 67>>
    /\ \E shape \in Shapes, fl \in IdlFieldLists :
          /\ idl_text = RenderDoc(shape, fl)
          /\ given = [family |-> "idl", shape |-> shape, declared |-> DeclaredIn(shape, fl)]

\* fields = parse_idl_type(idl_text, schema.name); if fields: decode_cdr_message(...)
ParseIdlType ==
    /\ pc = "parse"
    /\ parsed' = parse_idl_type(idl_text, type_name)
    /\ fields' = parsed'
    /\ pc' = IF parsed' # <<>> THEN "call" ELSE "nofields"
    /\ run' = [run EXCEPT !.parse_calls[run.msg.schema] = @ + 1]
    /\ UNCHANGED <<data, idl_text, type_name, struct_map, offset, result, idx, trace, given>>

Init == InitCommon /\ (InitDirect \/ InitPipeline)

Next ==
    \/ ParseIdlType
    \/ DecodeCall
    \/ LoopEnd
    \/ LoopBreak
    \/ FieldPrimitive
    \/ FieldString
    \/ FieldHeader
    \/ FieldNested
    \/ FieldUnresolved

Spec == Init /\ [][Next]_vars

(***************************************************************************)
(* convert_mcap_to_json: the loop over the messages of one file.  What the *)
(* mcap reader yields and what the library's decoder factory and decoders  *)
(* do is the environment: every message of Messages may come next, a       *)
(* decoder_for call may return a decoder, return None or raise, and a      *)
(* decoder call may return a message, return None or raise.                *)
(***************************************************************************)
MaxMessages == 2      \* most messages the iterator yields in one run

\* the IDL text of schema 2 and 3: R with a field of each kind the decoder tells apart
IdlRun ==
    <<115,116,114,117,99,116,32,73,110,110,101,114,32,123,32,117,105,110,116,56,32,112,59,32,125,59,32,115,116,114,117,99,116,32,82,32,123,32,117,105,110,116,56,32,97,59,32,115,116,114,105,110,103,32,98,59,32,115,116,100,95,109,115,103,115,58,58,72,101,97,100,101,114,32,99,59,32,73,110,110,101,114,32,100,59,32,70,111,111,32,101,59,32,125,59>>  \* "struct Inner { uint8 p; }; struct R { uint8 a; string b; std_msgs::Header c; Inner d; Foo e; };"

s_pkg_msg_R == s_pkg_msg_ \o s_R
s_pkg_msg_Nope == s_pkg_msg_ \o s_Nope

\* the schema records of the file, by id: encoding, name, data (none for id 0)
SchemaOf(id) ==
    CASE id = 1 -> [encoding |-> "ros2msg", name |-> s_pkg_msg_R, data |-> <<117,105,110,116,56,32,97>>]
      [] id = 2 -> [encoding |-> "ros2idl", name |-> s_pkg_msg_R, data |-> IdlRun]
      [] id = 3 -> [encoding |-> "ros2idl", name |-> s_pkg_msg_Nope, data |-> IdlRun]
      [] id = 4 -> [encoding |-> "ros2idl", name |-> s_pkg_msg_R, data |-> <<255>>]
      [] OTHER  -> [encoding |-> "", name |-> <<>>, data |-> <<>>]

\* a = 7, b = "AB", c = (1, 2, "f"), d.p = 9 and one byte more; a buffer shorter than
\* the 4-byte header
RunBuffers ==
    { CdrHeader \o <<7, 0, 0, 0,  2, 0, 0, 0, 65, 66, 0, 0,
                     1, 0, 0, 0,  2, 0, 0, 0,  1, 0, 0, 0, 102, 0, 0, 0,  9, 0>>,
      <<0, 1, 0>> }

Messages ==
    [schema : SchemaIds, enc : {"cdr", "json"}, topic : {1, 2}, data : RunBuffers]

FactoryOutcomes == {"decoder", "none", "raise"}
DecoderOutcomes == {"msg", "none", "raise"}

\* bytes.decode('utf-8') on byte strings without the lead bytes 0xC2..0xF4: ASCII maps
\* to itself, any other byte raises UnicodeDecodeError
Utf8DecodeStrict(bs) ==
    [ok |-> \A i \in 1..Len(bs) : bs[i] < 128, text |-> bs]

\* decoder_cache.get(cache_key)
CacheGet(cache, key) ==
    IF \E i \in 1..Len(cache) : cache[i][1] = key
    THEN cache[CHOOSE i \in 1..Len(cache) : cache[i][1] = key][2]
    ELSE "None"

\* message_count += 1; json_obj = {...}; decoded = False
Begin(r, m) ==
    [r EXCEPT !.seen = @ + 1, !.message_count = @ + 1, !.msg = [m EXCEPT !.topic = 0],
              !.json = {"topic", "timestamp", "message_type"}, !.decoded = FALSE]

\* the cache entry written after decoder_for: the decoder when one was returned,
\* False when the call raised, nothing when it returned None
CacheAfter(cache, key, o) ==
    CASE o = "decoder" -> DictSet(cache, key, "decoder")
      [] o = "raise"   -> DictSet(cache, key, "False")
      [] OTHER         -> cache

\* if decoder is None: try: decoder = decoder_factory.decoder_for(...) ...
Obtain(r, key, o) ==
    [r EXCEPT !.decoder_cache = CacheAfter(@, key, o),
              !.retried = IF key \in r.failed THEN @ \cup {key} ELSE @,
              !.failed = IF o # "decoder" THEN @ \cup {key} ELSE @]

\* the local variable decoder after the cache lookup and the attempt
DecoderAfter(cached, o) ==
    IF cached # "None" THEN cached ELSE IF o = "decoder" THEN "decoder" ELSE "None"

\* if decoder and decoder is not False: try: decoded_msg = decoder(message.data) ...
UseDecoder(r, decoder, o2) ==
    IF decoder # "decoder" THEN r
    ELSE CASE o2 = "msg"   -> [r EXCEPT !.json = @ \cup {"data"}, !.decoded = TRUE,
                                        !.decoded_count = @ + 1]
           [] o2 = "raise" -> [r EXCEPT !.json = @ \cup {"decode_error"}]
           [] OTHER        -> r

\* if schema and channel.message_encoding == "cdr": ...
Primary(r, m, o, o2) ==
    IF m.schema # 0 /\ m.enc = "cdr"
    THEN UseDecoder(IF CacheGet(r.decoder_cache, <<m.enc, m.schema>>) = "None"
                    THEN Obtain(r, <<m.enc, m.schema>>, o) ELSE r,
                    DecoderAfter(CacheGet(r.decoder_cache, <<m.enc, m.schema>>), o), o2)
    ELSE r

DecoderVars == <<data, fields, idl_text, type_name, struct_map, offset, result, idx,
                 parsed, trace>>

\* if topics and channel.topic not in topics: continue
SkipMessage ==
    /\ pc = "iter"
    /\ run.seen < MaxMessages
    /\ \E m \in Messages : run.topics # {} /\ m.topic \notin run.topics
    /\ run' = [run EXCEPT !.seen = @ + 1]
    /\ UNCHANGED <<pc, given>>
    /\ UNCHANGED DecoderVars

\* the next message passes the topic filter: count it and try the library's decoder
TakeMessage ==
    /\ pc = "iter"
    /\ run.seen < MaxMessages
    /\ \E m \in Messages, o \in FactoryOutcomes, o2 \in DecoderOutcomes :
          /\ run.topics = {} \/ m.topic \in run.topics
          /\ run' = Primary(Begin(run, m), m, o, o2)
    /\ pc' = IF run'.decoded THEN "output" ELSE "notdecoded"
    /\ UNCHANGED given
    /\ UNCHANGED DecoderVars

\* if not decoded: if schema and schema.encoding == "ros2idl": try:
\* idl_text = schema.data.decode('utf-8'); the calls that follow take the text, the
\* schema's name and the message's bytes
IdlPath ==
    /\ pc = "notdecoded"
    /\ run.msg.schema # 0
    /\ SchemaOf(run.msg.schema).encoding = "ros2idl"
    /\ IF Utf8DecodeStrict(SchemaOf(run.msg.schema).data).ok
       THEN /\ idl_text' = Utf8DecodeStrict(SchemaOf(run.msg.schema).data).text
            /\ type_name' = SchemaOf(run.msg.schema).name
            /\ data' = run.msg.data
            /\ pc' = "parse"
            /\ UNCHANGED run
       ELSE /\ run' = [run EXCEPT !.json = @ \cup {"idl_decode_error"}]
            /\ pc' = "raw"
            /\ UNCHANGED <<idl_text, type_name, data>>
    /\ UNCHANGED <<fields, struct_map, offset, result, idx, parsed, trace, given>>

\* no schema, or a schema that is not ros2idl: nothing more is tried
NoIdlPath ==
    /\ pc = "notdecoded"
    /\ run.msg.schema = 0 \/ SchemaOf(run.msg.schema).encoding # "ros2idl"
    /\ pc' = "raw"
    /\ UNCHANGED <<run, given>>
    /\ UNCHANGED DecoderVars

\* decoded_data = decode_cdr_message(...); if decoded_data: json_obj["data"] = ...
IdlDecoded ==
    /\ pc = "done"
    /\ given.family = "convert"
    /\ IF result # <<>>
       THEN /\ run' = [run EXCEPT !.json = @ \cup {"data"}, !.decoded = TRUE,
                                  !.decoded_count = @ + 1]
            /\ pc' = "output"
       ELSE /\ pc' = "raw"
            /\ UNCHANGED run
    /\ UNCHANGED given
    /\ UNCHANGED DecoderVars

\* else: json_obj["idl_parse_info"] = ...; json_obj["idl_preview"] = ...
IdlNoFields ==
    /\ pc = "nofields"
    /\ given.family = "convert"
    /\ run' = [run EXCEPT !.json = @ \cup {"idl_parse_info", "idl_preview"}]
    /\ pc' = "raw"
    /\ UNCHANGED given
    /\ UNCHANGED DecoderVars

\* if not decoded: raw_count += 1; json_obj["data"] = {"raw_data": ...}; ...
RawData ==
    /\ pc = "raw"
    /\ run' = [run EXCEPT !.raw_count = @ + 1,
                          !.json = @ \cup {"data", "encoding"}
                                     \cup (IF run.msg.schema # 0 THEN {"schema_encoding"}
                                           ELSE {})]
    /\ pc' = "output"
    /\ UNCHANGED given
    /\ UNCHANGED DecoderVars

\* a count that leaves the printed object out
OutputCountStays(n) == n

\* output_count += 1
OutputCount(n) == n + 1

\* print(json.dumps(...)); output_count += 1; if limit and output_count >= limit: break
Output ==
    /\ pc = "output"
    /\ run' = [run EXCEPT !.output_count = OutputCount(@),
                          !.with_data = IF "data" \in run.json THEN @ + 1 ELSE @,
                          !.msg = NoMessage, !.json = {}, !.decoded = FALSE]
    /\ pc' = IF run.limit # 0 /\ run'.output_count >= run.limit THEN "end" ELSE "iter"
    /\ fields' = <<>>
    /\ idl_text' = <<>>
    /\ type_name' = <<>>
    /\ data' = <<>>
    /\ struct_map' = <<>>
    /\ offset' = 0
    /\ result' = <<>>
    /\ idx' = 0
    /\ parsed' = <<>>
    /\ trace' = <<>>
    /\ UNCHANGED given

\* the iterator is exhausted: the summary is printed
Finish ==
    /\ pc = "iter"
    /\ pc' = "end"
    /\ UNCHANGED <<run, given>>
    /\ UNCHANGED DecoderVars

\* one call of convert_mcap_to_json, with or without a topic filter and a limit
InitRun ==
    /\ pc = "iter"
    /\ \E topics \in {{}, {1}}, limit \in {0, 2} :
          run = [RunIdle EXCEPT !.topics = topics, !.limit = limit]
    /\ given = [family |-> "convert"]
    /\ data = <<>>
    /\ fields = <<>>
    /\ idl_text = <<>>
    /\ type_name = <<>>
    /\ struct_map = <<>>
    /\ offset = 0
    /\ result = <<>>
    /\ idx = 0
    /\ parsed = <<>>
    /\ trace = <<>>

NextRun ==
    \/ SkipMessage
    \/ TakeMessage
    \/ IdlPath
    \/ NoIdlPath
    \/ ParseIdlType
    \/ DecodeCall
    \/ LoopEnd
    \/ LoopBreak
    \/ FieldPrimitive
    \/ FieldString
    \/ FieldHeader
    \/ FieldNested
    \/ FieldUnresolved
    \/ IdlDecoded
    \/ IdlNoFields
    \/ RawData
    \/ Output
    \/ Finish

SpecRun == InitRun /\ [][NextRun]_vars

(***************************************************************************)
(* parse_idl_type against the records the text declares.                   *)
(***************************************************************************)
Parsed == given.family = "idl" /\ pc # "parse"

Requested == LastSegment(type_name)

IsDeclared(name) == \E i \in 1..Len(given.declared) : given.declared[i][1] = name

DeclaredFields(name) ==
    given.declared[CHOOSE i \in 1..Len(given.declared) : given.declared[i][1] = name][2]

\* C1: for an IDL text that declares a record R with fields (t1,n1),...,(tk,nk),
\* parse_idl_type with a path whose last segment is R returns exactly those k
\* (normalized type, name) pairs in declaration order, whatever the leading segments.
C1_ExactlyTheDeclaredFields ==
    (Parsed /\ IsDeclared(Requested)) => parsed = DeclaredFields(Requested)

\* C10: when the text declares no record named like the last path segment of the
\* requested type name, parse_idl_type returns the empty field list (and the caller
\* takes the no-fields path).
C10_NoRecordNoFields ==
    (Parsed /\ ~IsDeclared(Requested)) => (parsed = <<>> /\ pc = "nofields")

\* a text that declares records with fields, none of them the requested one
C10_Witness ==
    /\ Parsed
    /\ ~IsDeclared(Requested)
    /\ \E i \in 1..Len(given.declared) : Len(given.declared[i][2]) = 2
    /\ parsed = <<>>

(***************************************************************************)
(* decode_cdr_message, read off the history of the loop.                   *)
(***************************************************************************)
Steps == 1..Len(trace)

\* the cursor the field before step i left (4 at the first field)
CursorBefore(i) == IF i = 1 THEN 4 ELSE trace[i - 1].after

\* a is the least multiple of m that is not below c
LeastMultipleFrom(a, m, c) == a % m = 0 /\ a >= c /\ a - c < m

\* the unsigned 32-bit number the buffer holds at position at (0-based), below 2^30
PrefixAt(at) ==
    data[at + 1] + data[at + 2] * 256 + data[at + 3] * 65536 + data[at + 4] * 16777216

PrefixReadable(at) == at + 4 <= Len(data) /\ data[at + 4] < 64

\* C2: a buffer of 4 header bytes, the padding to the type's alignment and the
\* little-endian encoding of a value, decoded with a one-field list of that type,
\* gives the mapping whose single entry is that value.
C2_RoundTrip ==
    (given.family = "roundtrip" /\ pc = "done") =>
        result = << <<fields[1][2], given.value>> >>

\* the least 64-bit integer went through the writer and the decoder
C2_Witness ==
    /\ given.family = "roundtrip"
    /\ pc = "done"
    /\ fields[1][1] = s_int64
    /\ given.value = IntVal(TRUE, TopBit(8))
    /\ result = << <<fields[1][2], given.value>> >>

\* C3: each top-level primitive read happens at the least multiple of the type's
\* alignment that is not below the cursor the previous field left, and a read that
\* succeeds leaves the cursor exactly the type's size further; with (uint8 a;
\* uint32 b) a is read at 4 and b at 8.
C3_AlignedPrimitiveRead ==
    /\ \A i \in Steps :
          trace[i].kind = "primitive" =>
             LET decoder == CDR_TYPE_DECODERS[trace[i].type]
             IN  /\ trace[i].before = CursorBefore(i)
                 /\ LeastMultipleFrom(trace[i].at, decoder.align, trace[i].before)
                 /\ ~trace[i].raised => trace[i].after = trace[i].at + decoder.size
    /\ (Len(fields) = 2 /\ fields[1][1] = s_uint8 /\ fields[2][1] = s_uint32) =>
          /\ Len(trace) >= 1 => trace[1].at = 4
          /\ Len(trace) >= 2 => trace[2].at = 8

\* (uint8 a; uint32 b) decoded from a buffer with 3 padding bytes between a and b
C3_Witness ==
    /\ pc = "done"
    /\ Len(fields) = 2 /\ fields[1][1] = s_uint8 /\ fields[2][1] = s_uint32
    /\ Len(trace) = 2
    /\ trace[1].at = 4 /\ trace[1].after = 5
    /\ trace[2].at = 8 /\ trace[2].after = 12 /\ ~trace[2].raised
    /\ Len(result) = 2

\* C4: a top-level string field is read at the cursor aligned to 4; with the length
\* L read there the cursor ends exactly 4 + L after the aligned position; with L = 0
\* the value is the empty string, the cursor ends 4 after it, and the next field
\* starts from that cursor.
C4_StringAdvance ==
    \A i \in Steps :
       trace[i].kind = "string" =>
          /\ trace[i].before = CursorBefore(i)
          /\ LeastMultipleFrom(trace[i].at, 4, trace[i].before)
          /\ (~trace[i].raised /\ PrefixReadable(trace[i].at)) =>
                /\ trace[i].after = trace[i].at + 4 + PrefixAt(trace[i].at)
                /\ PrefixAt(trace[i].at) = 0 =>
                      /\ trace[i].value = StrVal(<<>>)
                      /\ trace[i].after = trace[i].at + 4
                      /\ i < Len(trace) => trace[i + 1].before = trace[i].at + 4

\* an empty string was decoded and the next field was read after its length prefix
C4_Witness ==
    \E i \in Steps :
       /\ trace[i].kind = "string" /\ ~trace[i].raised
       /\ PrefixReadable(trace[i].at) /\ PrefixAt(trace[i].at) = 0
       /\ trace[i].value = StrVal(<<>>)
       /\ i < Len(trace)
       /\ trace[i + 1].kind = "primitive" /\ ~trace[i + 1].raised
       /\ trace[i + 1].at = trace[i].at + 4

KeySet(items) == {items[i][1] : i \in 1..Len(items)}

\* every type of the list is one the writer has an encoding for: a primitive, a
\* string, a header, or the record Inner declared in the IDL text
Encodable ==
    \A i \in 1..Len(fields) :
       \/ ~IsOtherType(fields[i][1])
       \/ fields[i][1] = s_Inner /\ idl_text = IdlInner

\* the buffer is the first n bytes of what the writer writes for the field list
WrittenUpTo(pat) ==
    /\ Len(data) <= Len(Encode(fields, 1, pat, CdrHeader))
    /\ data = SubSeq(Encode(fields, 1, pat, CdrHeader), 1, Len(data))

\* the length of the encodings of the first two fields, header included
FirstTwoLen(pat) == Len(Encode(SubSeq(fields, 1, 2), 1, pat, CdrHeader))

\* the buffer holds complete encodings of the first 2 of 3 fields but not of the third
HoldsFirstTwoOnly(pat) ==
    /\ Len(fields) = 3
    /\ Encodable
    /\ WrittenUpTo(pat)
    /\ Len(data) >= FirstTwoLen(pat)
    /\ Len(data) < Len(Encode(fields, 1, pat, CdrHeader))

C6_UnresolvedPlaceholder ==
    \A i \in Steps :
       trace[i].kind = "unresolved" =>
          /\ trace[i].value = StrVal(<<60>> \o trace[i].type \o <<62>>)
          /\ ~trace[i].raised
          /\ trace[i].after = trace[i].before
          /\ (i = Len(trace) /\ i < Len(fields)) => pc = "loop"
          /\ i < Len(trace) => trace[i + 1].before = trace[i].before

\* an unresolved field was followed by a field read from the cursor it left
C6_Witness ==
    \E i \in Steps :
       /\ trace[i].kind = "unresolved"
       /\ struct_map # <<>>
       /\ i < Len(trace)
       /\ trace[i + 1].kind = "primitive" /\ ~trace[i + 1].raised
       /\ trace[i + 1].before = trace[i].before

IsErrorPlaceholder(v) ==
    /\ v.k = "str"
    /\ LitAt(v.text, 0, s_error_open)
    /\ Len(v.text) > Len(s_error_open)
    /\ v.text[Len(v.text)] = 62

\* C7: a top-level field whose type is or ends in "Header" is decoded by the fixed
\* layout whatever the record map holds: at the cursor aligned to 4 an int32 sec and
\* a uint32 nanosec, then a length-prefixed string; the value is the mapping
\* {stamp: {sec, nanosec}, frame_id} in that order, the cursor ends 8 + 4 +
\* len(frame_id) after the aligned start, and the buffer of sec = 100, nanosec = 200,
\* frame_id = "base_link" gives exactly that mapping.
C7_HeaderLayout ==
    /\ \A i \in Steps :
          (trace[i].kind = "header" /\ ~trace[i].raised) =>
             LET at == trace[i].at
                 v  == trace[i].value
             IN  /\ LeastMultipleFrom(at, 4, trace[i].before)
                 /\ v.k = "dict"
                 /\ DictKeys(v.items) = <<s_stamp, s_frame_id>>
                 /\ v.items[1][2] =
                       DictVal(<< <<s_sec, SignedLE(SubSeq(data, at + 1, at + 4))>>,
                                  <<s_nanosec, UnsignedLE(SubSeq(data, at + 5, at + 8))>> >>)
                 /\ v.items[2][2].k = "str"
                 /\ trace[i].after = at + 8 + 4 + Len(v.items[2][2].text)
    /\ (/\ given.family = "header"
        /\ Len(fields) = 1
        /\ data = Encode(fields, 1, "example", CdrHeader)
        /\ pc = "done") => result = << <<fields[1][2], ExampleHeader>> >>

\* the last step of the history raised
Failed == Len(trace) >= 1 /\ trace[Len(trace)].raised

\* C8: decode_cdr_message always returns a mapping; when the read of a top-level
\* field raises, that field's value is an error placeholder "<error: reason>", no
\* later field of the record is decoded or present in the output, and the entries
\* decoded before the failing field are returned unchanged.
C8_FaultStopsTheRecord ==
    /\ \A i \in Steps : trace[i].raised => (i = Len(trace) /\ pc = "done")
    /\ (pc = "done" /\ Failed) =>
          LET f == trace[Len(trace)]
          IN  /\ \E j \in 1..Len(result) :
                    result[j][1] = f.name /\ IsErrorPlaceholder(result[j][2])
              /\ \A j \in (f.i + 1)..Len(fields) : fields[j][2] \notin KeySet(result)
              /\ \A j \in 1..Len(f.prior) : result[j] = f.prior[j]

\* C8 as amended: the failing field's name maps to the error placeholder, no later
\* field is decoded, the mapping has no other new key, and every entry decoded
\* before under another name is returned unchanged (an earlier entry with the name
\* of the failing field is replaced by the placeholder).
C8_FaultStopsDecoding ==
    /\ \A i \in Steps : trace[i].raised => (i = Len(trace) /\ pc = "done")
    /\ (pc = "done" /\ Failed) =>
          LET f == trace[Len(trace)]
          IN  /\ \E j \in 1..Len(result) :
                    result[j][1] = f.name /\ IsErrorPlaceholder(result[j][2])
              /\ KeySet(result) = KeySet(f.prior) \cup {f.name}
              /\ \A j \in 1..Len(f.prior) :
                    f.prior[j][1] # f.name => result[j] = f.prior[j]

\* the third of three fields with distinct names failed after two were decoded
C8_Witness ==
    /\ pc = "done"
    /\ Failed
    /\ Len(trace) = 3
    /\ Len(fields) = 3
    /\ KeySet(result) = {NameAt(1), NameAt(2), NameAt(3)}
    /\ IsErrorPlaceholder(result[3][2])
    /\ result[1] = trace[3].prior[1] /\ result[2] = trace[3].prior[2]

\* the string s of a nested Inner (uint8 p; string s;) has its length prefix at
\* 4 bytes after the record's start
InnerPrefixAt(at) == at + 4

\* C9: a string whose length prefix exceeds the bytes that remain in the buffer is
\* a fault, at the top level and in a nested record: the field's value is an error
\* placeholder, the rest of the record is omitted, and no truncated string is
\* returned as a value.
C9_LongPrefixIsFault ==
    \A i \in Steps :
       /\ (/\ trace[i].kind = "string"
           /\ PrefixReadable(trace[i].at)
           /\ PrefixAt(trace[i].at) > Len(data) - (trace[i].at + 4)) =>
             /\ trace[i].raised
             /\ IsErrorPlaceholder(trace[i].value)
             /\ i = Len(trace)
       /\ (/\ trace[i].kind = "nested"
           /\ trace[i].type = s_Inner
           /\ PrefixReadable(InnerPrefixAt(trace[i].at))
           /\ PrefixAt(InnerPrefixAt(trace[i].at))
                 > Len(data) - (InnerPrefixAt(trace[i].at) + 4)) =>
             /\ trace[i].value.k = "dict"
             /\ \E j \in 1..Len(trace[i].value.items) :
                   /\ trace[i].value.items[j][1] = <<115>>
                   /\ IsErrorPlaceholder(trace[i].value.items[j][2])

(***************************************************************************)
(* The cursor over one call.                                               *)
(***************************************************************************)
\* C11: throughout one decode_cdr_message call the top-level cursor starts at 4 and
\* never decreases: each field is processed from the cursor the field before left,
\* is read at a position not below it, and leaves a cursor not below it, whatever
\* the field is (primitive, string, header, resolved nested record, unresolved type).
C11_CursorNeverDecreases ==
    /\ (pc = "loop" /\ trace = <<>>) => offset = 4
    /\ \A i \in Steps :
          /\ trace[i].before = CursorBefore(i)
          /\ trace[i].at >= trace[i].before
          /\ trace[i].after >= trace[i].at
    /\ (pc \in {"loop", "done"} /\ trace # <<>>) => offset = trace[Len(trace)].after

\* a call that processed a string, a nested record and a header, each of which
\* moved the cursor, the last two from an unaligned cursor
C11_Witness ==
    /\ pc = "done"
    /\ \A k \in {"string", "nested", "header"} :
          \E i \in Steps : trace[i].kind = k /\ trace[i].after > trace[i].at
    /\ \A i \in Steps : i > 1 => trace[i].at > trace[i].before

(***************************************************************************)
(* Records inside records.                                                 *)
(***************************************************************************)
\* the field list the record map gives for the type of step i
NestedFieldsOf(i) == LookupStruct(struct_map, trace[i].type).fields

\* the declared type of the field of that name
TypeOfField(fs, name) == fs[CHOOSE j \in 1..Len(fs) : fs[j][2] = name][1]

\* C12: a field inside a nested record whose type is a header or matches a
\* record-map entry is decoded by the header / record rules of the top level (its
\* value is a mapping), and only a type that matches no primitive, string, header
\* or record-map entry becomes an unresolved-type placeholder.
C12_NestedSameRules ==
    \A i \in Steps :
       (trace[i].kind = "nested" /\ trace[i].value.k = "dict") =>
          \A j \in 1..Len(trace[i].value.items) :
             LET t == TypeOfField(NestedFieldsOf(i), trace[i].value.items[j][1])
                 v == trace[i].value.items[j][2]
             IN  /\ (t # s_string /\ IsHeaderType(t)) => v.k = "dict"
                 /\ (IsOtherType(t) /\ LookupStruct(struct_map, t).fields # <<>>)
                        => v.k = "dict"
                 /\ (IsOtherType(t) /\ ~LookupStruct(struct_map, t).found)
                        => v = TypePlaceholder(t)

(***************************************************************************)
(* The record map against the records the text declares.                   *)
(***************************************************************************)
\* the record map was built from the IDL text of the schema
MapBuilt == given.family = "idl" /\ pc \in {"loop", "done"}

HasEntry(map, name) == \E j \in 1..Len(map) : map[j][1] = name

EntryOf(map, name) == map[CHOOSE j \in 1..Len(map) : map[j][1] = name][2]

\* C13: the record map built from an IDL text has one entry for every record
\* declared anywhere in the text, a record declared inside another record's braces
\* included, and the entry of a record is the field list parse_idl_type returns for
\* that record on the same text.
C13_MapCoversEveryRecord ==
    MapBuilt =>
       \A k \in 1..Len(given.declared) :
          /\ HasEntry(struct_map, given.declared[k][1])
          /\ EntryOf(struct_map, given.declared[k][1])
                = parse_idl_type(idl_text, given.declared[k][1])

(***************************************************************************)
(* A resolved nested record and the cursor.                                *)
(***************************************************************************)
\* the walk over the record's fields against the buffer from position at on
WalkFrom(i, at) ==
    NestedWalk(NestedFieldsOf(i), 1, Slice(data, at, Len(data)), <<>>, 0)

\* C14: when a field's type resolves to a record-map entry the cursor is aligned to
\* 4 bytes, the record is decoded against the slice from that cursor on with a
\* nested cursor starting at 0, the nested mapping is the field's value, the outer
\* cursor is advanced by the final nested cursor, and the next sibling is read from
\* there.
C14_NestedAdvance ==
    \A i \in Steps :
       trace[i].kind = "nested" =>
          /\ LeastMultipleFrom(trace[i].at, 4, trace[i].before)
          /\ trace[i].value = DictVal(WalkFrom(i, trace[i].at).result)
          /\ trace[i].after = trace[i].at + WalkFrom(i, trace[i].at).offset
          /\ i < Len(trace) => trace[i + 1].before = trace[i].after

(***************************************************************************)
(* The timestamp type.                                                     *)
(***************************************************************************)
\* C17: a field declared with builtin_interfaces::Time is normalized to the type
\* name "Time", and decoding a field of that type yields a decoded timestamp (a
\* mapping) and moves the cursor past its 8 bytes: it is not an unresolved-type
\* placeholder with the cursor left in place.
C17_TimeDecoded ==
    /\ (Parsed /\ given.shape = "alone" /\ Requested = s_R) =>
          \A k \in 1..Len(DeclaredFields(s_R)) :
             DeclaredFields(s_R)[k][1] = s_Time =>
                (k <= Len(parsed) /\ parsed[k][1] = s_Time)
    /\ \A i \in Steps :
          (trace[i].type = s_Time /\ ~trace[i].raised) =>
             /\ trace[i].kind # "unresolved"
             /\ trace[i].value.k = "dict"
             /\ trace[i].after >= trace[i].before + 8

(***************************************************************************)
(* Which entry of the record map a field type resolves to.                 *)
(***************************************************************************)
\* C18: when the record map has an entry whose name equals the field type, that
\* entry's field list is the one the nested record is decoded with, also when
\* another record's name is a proper suffix of the field type, whatever the order
\* in which the text declares the records.
C18_ExactNameWins ==
    \A i \in Steps :
       (/\ trace[i].kind = "nested"
        /\ trace[i].value.k = "dict"
        /\ HasEntry(struct_map, trace[i].type)) =>
          trace[i].value =
             DictVal(NestedWalk(EntryOf(struct_map, trace[i].type), 1,
                                Slice(data, trace[i].at, Len(data)), <<>>, 0).result)

(***************************************************************************)
(* The shape of the returned mapping.                                      *)
(***************************************************************************)
DistinctNames == \A i, j \in 1..Len(fields) : fields[i][2] = fields[j][2] => i = j

\* C19: for a field list with pairwise distinct names, the keys of the returned
\* mapping, in insertion order, are a prefix of the field names in declaration
\* order; at most one top-level value is an error placeholder, and if there is one
\* it belongs to the last key.
C19_KeysArePrefix ==
    (pc = "done" /\ DistinctNames) =>
       /\ Len(result) <= Len(fields)
       /\ \A j \in 1..Len(result) : result[j][1] = fields[j][2]
       /\ \A j \in 1..Len(result) : IsErrorPlaceholder(result[j][2]) => j = Len(result)
       /\ \A i \in Steps : trace[i].raised <=> (i = Len(result) /\ IsErrorPlaceholder(result[i][2]))

\* a call on three fields that returned two keys, the second an error placeholder
C19_Witness ==
    /\ pc = "done"
    /\ DistinctNames
    /\ Len(fields) = 3
    /\ Len(result) = 2
    /\ ~IsErrorPlaceholder(result[1][2])
    /\ IsErrorPlaceholder(result[2][2])

(***************************************************************************)
(* One run of convert_mcap_to_json.                                        *)
(***************************************************************************)
\* C15: within one run, field extraction (parse_idl_type) and record-map
\* construction are performed at most once per schema, however many messages of
\* that schema go through the IDL path; decoding is performed once per message.
C15_ExtractionOncePerSchema ==
    \A id \in SchemaIds :
       /\ run.parse_calls[id] <= 1
       /\ run.map_builds[id] <= 1
       /\ run.decode_calls[id] <= run.message_count

\* C16: once obtaining the decoder for a (message encoding, schema id) key has
\* failed, by raising or by returning no decoder, the cache holds a sentinel under
\* that key (False, distinct from a missing entry) and decoder creation is never
\* attempted again for that key.
C16_FailureIsRemembered ==
    /\ \A key \in run.failed : CacheGet(run.decoder_cache, key) = "False"
    /\ run.retried = {}

\* C20: after each message that passes the topic filter has been processed,
\* message_count = output_count = decoded_count + raw_count, and every message that
\* was printed carried a "data" entry; a message about to be printed carries one and
\* has been counted once, as decoded or as raw.
C20_CountsAgree ==
    given.family = "convert" =>
       /\ pc \in {"iter", "end"} =>
             /\ run.message_count = run.output_count
             /\ run.output_count = run.decoded_count + run.raw_count
             /\ run.with_data = run.output_count
       /\ pc = "output" =>
             /\ "data" \in run.json
             /\ run.message_count = run.output_count + 1
             /\ run.message_count = run.decoded_count + run.raw_count
             /\ run.decoded <=> "encoding" \notin run.json

\* a run that printed one message decoded through the IDL path and one as raw data
\* after the library's decoder had raised
C20_Witness ==
    /\ pc = "end"
    /\ run.message_count = 2
    /\ run.decoded_count = 1
    /\ run.raw_count = 1
    /\ run.decode_calls[2] = 1
    /\ run.failed # {}

====
